---- MODULE Spec2Model ----
(***************************************************************************)
(* BlockVerse room server, in its two variants:                            *)
(*   "obj"  src/server.js            registry  const clients = {}          *)
(*   "map"  src/unnamed/part_000     registry  const clients = new Map()   *)
(*          (lines 257-472)                                                *)
(* and the word-game server of src/unnamed/part_000 lines 1-255            *)
(* (socket.io), variant "word".                                            *)
(* One action per event handler; an action is the whole handler.           *)
(*                                                                         *)
(* Left out of the state (no handler reads them back): a player's color,   *)
(* hp and joinedAt, a chat entry's color and ts, a room's name, scripts    *)
(* and created.                                                            *)
(***************************************************************************)
EXTENDS Integers, Sequences, FiniteSets, TLC

VARIABLES
  variant,   \* which server runs: "obj" | "map" | "word"
  rooms,     \* roomId -> [maxPlayers, players, mapData, chatHistory]
  clients,   \* registry: key -> [playerId, roomId, name]
  ws,        \* connection -> [readyState, playerId]  (playerId: the closure's constant)
  out,       \* what the last handler sent: sequence of messages, each with its recipients
  last,      \* the event the last handler was run for
  crashed,   \* an exception left a handler (uncaught: the process is gone)
  steps,     \* number of events handled so far
  battleRooms,  \* word game: roomId -> [p1, p2, winner]
  raceRooms,    \* word game: roomId -> [solution, winner, hostId, players]
  members,      \* word game: socket -> the socket.io rooms it has joined
  sock          \* word game: socket -> "none" | "connected" | "gone"

vars == <<variant, rooms, clients, ws, out, last, crashed, steps,
          battleRooms, raceRooms, members, sock>>
wordVars == <<battleRooms, raceRooms, members, sock>>

----------------------------------------------------------------------------
(* Bounds *)

MaxConn == 3        \* connections accepted over the run
NumRooms == 2       \* rooms seeded (the source seeds 4)
MaxCap == 2         \* maxPlayers of the rooms after the first (the source: 20)
MaxChat == 2        \* chat history maximum (the source: 100)
TextCap == 2        \* chat text cap (the source: 200)
MaxSteps == 7       \* events handled over the run
MaxSock == 3        \* word game: sockets connected over the run
NumBattle == 2      \* word game: room ids makeId(5) can draw
NumRace == 1        \* word game: room ids makeId(4) can draw
MaxWordSteps == 7   \* word game: events handled over the run

ChatTail == MaxChat - 1   \* chat tail sent to a joiner (the source: 30 / 40 of 100)

Conns == 1..MaxConn
RoomIds == 1..NumRooms
NoRoom == 0                     \* null
NoWs == 0                       \* null (broadcast's default for the excluded socket)
UnknownRoom == NumRooms + 1     \* a roomId that names no room
Sockets == 1..MaxSock
BattleIds == 1..NumBattle
RaceIds == (NumBattle + 1)..(NumBattle + NumRace)   \* 4 characters: never a battle id

----------------------------------------------------------------------------
(* Values *)

\* uuidv4(): the n-th call returns a value no other call returns.
uuidv4(n) == 100 + n

\* JS numbers travel as numerals; "abc" is a payload field that is no number.
Numerals == {"-1", "0", "1", "2", "3"}

\* +v || 0
ToNumberOr0(v) == IF v \in Numerals THEN v ELSE "0"

\* s.slice(0, n)
SliceTo(s, n) == SubSeq(s, 1, IF Len(s) < n THEN Len(s) ELSE n)

\* A tail that is the whole list.
SliceWhole(a, n) == a

\* a.slice(-n)
SliceLast(a, n) == SubSeq(a, IF Len(a) > n THEN Len(a) - n + 1 ELSE 1, Len(a))

EmptyFn == [x \in {} |-> 0]
Put(f, k, v) == [x \in DOMAIN f \cup {k} |-> IF x = k THEN v ELSE f[x]]
Del(f, k) == [x \in DOMAIN f \ {k} |-> f[x]]

Block(x, y, z, type) == [x |-> x, y |-> y, z |-> z, type |-> type]
SameCell(b, x, y, z) == b.x = x /\ b.y = y /\ b.z = z

\* mapData.filter(b => !(b.x===x && b.y===y && b.z===z))
RECURSIVE RemoveCell(_, _, _, _)
RemoveCell(m, x, y, z) ==
  IF m = << >> THEN << >>
  ELSE (IF SameCell(Head(m), x, y, z) THEN << >> ELSE <<Head(m)>>)
       \o RemoveCell(Tail(m), x, y, z)

\* A payload's mapData that is no list (save_map).
NotAList == <<Block(0, 0, 0, "#not-a-list")>>
IsArray(m) == ~(Len(m) = 1 /\ m[1].type = "#not-a-list")

----------------------------------------------------------------------------
(* Default map, scaled down.  Source: floor 40x40 at y=0, platform -4..4   *)
(* at y=1, walls at +-4 for i in -3..3 at y=2, tower 2x2 for y in 1..6,    *)
(* 30 decorations at y=1 with rx, rz drawn from -15..14.                   *)

MapHalf == 1        \* floor is -MapHalf .. MapHalf-1 in x and z (the source: 20)
PlatHalf == MapHalf - 1   \* platform is -PlatHalf .. PlatHalf (the source: 4)
TowerTop == MapHalf       \* tower is y in 1..TowerTop (the source: 6)

Floor ==
  LET n == 2 * MapHalf
  IN  [i \in 1..(n * n) |->
         Block(((i - 1) \div n) - MapHalf, 0, ((i - 1) % n) - MapHalf, "grass")]

Platform ==
  LET n == 2 * PlatHalf + 1
  IN  [i \in 1..(n * n) |->
         Block(((i - 1) \div n) - PlatHalf, 1, ((i - 1) % n) - PlatHalf, "stone")]

Walls ==
  LET n == IF PlatHalf = 0 THEN 0 ELSE 2 * PlatHalf - 1
      at(j) == ((j - 1) \div 4) - (PlatHalf - 1)
  IN  [j \in 1..(4 * n) |->
         CASE (j - 1) % 4 = 0 -> Block(at(j), 2, -PlatHalf, "brick")
           [] (j - 1) % 4 = 1 -> Block(at(j), 2, PlatHalf, "brick")
           [] (j - 1) % 4 = 2 -> Block(-PlatHalf, 2, at(j), "brick")
           [] OTHER           -> Block(PlatHalf, 2, at(j), "brick")]

Tower ==
  LET t == 2 * PlatHalf + 2
  IN  [j \in 1..(4 * TowerTop) |->
         CASE (j - 1) % 4 = 0 -> Block(t, ((j - 1) \div 4) + 1, t, "wood")
           [] (j - 1) % 4 = 1 -> Block(t + 1, ((j - 1) \div 4) + 1, t, "wood")
           [] (j - 1) % 4 = 2 -> Block(t, ((j - 1) \div 4) + 1, t + 1, "wood")
           [] OTHER           -> Block(t + 1, ((j - 1) \div 4) + 1, t + 1, "wood")]

\* One outcome of the Math.random() draws of each room's map: a sequence of
\* <<rx, rz>>, one per decoration, all within the drawn range.  The first room
\* draws a cell of the platform, the others a free cell.
DecoDraws(r) == IF r = 1 THEN << <<0, 0>> >> ELSE << <<-1, -1>> >>

decoTypes == <<"sand", "snow", "lava", "metal", "glass", "leaf">>

\* generateDefaultMap() / buildDefaultMap(), for one outcome of the draws.
\* The decoration's type is decos[i % 6] in "map" and a further draw in "obj";
\* the first of the list stands for that draw.
generateDefaultMap(draws) ==
  Floor \o Platform \o Walls \o Tower \o
  [i \in 1..Len(draws) |->
     Block(draws[i][1], 1, draws[i][2], decoTypes[((i - 1) % Len(decoTypes)) + 1])]

\* createRoom(id, name, maxPlayers) / makeRoom
createRoom(maxPlayers, draws) ==
  [maxPlayers |-> maxPlayers,
   players |-> EmptyFn,
   mapData |-> generateDefaultMap(draws),
   chatHistory |-> << >>]

----------------------------------------------------------------------------
(* Registry and sending *)

\* The key under which the registry files a socket.  {}: a property key is
\* String(ws), the same "[object Object]" for every socket.  Map: the socket.
Key(c) == IF variant = "obj" THEN 0 ELSE c

HasInfo(cl, c) == Key(c) \in DOMAIN cl

Msg(type, to, room, id, data) ==
  [type |-> type, to |-> to, room |-> room, id |-> id, data |-> data]

\* A direct send that goes out to every open socket.
sendToAll(w, c) == {d \in Conns : w[d].readyState = "OPEN"}

\* sendTo(ws, msg): the recipients of a direct send.
sendTo(w, c) == IF w[c].readyState = "OPEN" THEN {c} ELSE {}

\* A broadcast that forgets the excluded socket.
broadcastEcho(cl, w, roomId, excludeWs) ==
  {c \in Conns :
     w[c].readyState = "OPEN" /\ HasInfo(cl, c) /\ cl[Key(c)].roomId = roomId}

\* broadcast(roomId, msg, excludeWs): the sockets msg is sent to.
broadcast(cl, w, roomId, excludeWs) ==
  IF roomId \notin RoomIds THEN {}
  ELSE {c \in Conns :
          /\ w[c].readyState = "OPEN"
          /\ HasInfo(cl, c)
          /\ cl[Key(c)].roomId = roomId
          /\ c # excludeWs}

SysMsg(kind, name) == [sender |-> <<"System">>, sys |-> kind, text |-> name]

\* The state a handler works on.
St(rm, cl, o) == [rooms |-> rm, clients |-> cl, out |-> o]

\* leaveRoom(ws) of server.js
leaveRoom(S, w, c) ==
  IF ~HasInfo(S.clients, c) \/ S.clients[Key(c)].roomId = NoRoom
  THEN St(S.rooms, Del(S.clients, Key(c)), S.out)
  ELSE
    LET info == S.clients[Key(c)]
        room == S.rooms[info.roomId]
        sysMsg == SysMsg("left", info.name)
        to == broadcast(S.clients, w, info.roomId, NoWs)
    IN  IF info.playerId \in DOMAIN room.players
        THEN St([S.rooms EXCEPT ![info.roomId].players = Del(@, info.playerId),
                                ![info.roomId].chatHistory = Append(@, sysMsg)],
                Del(S.clients, Key(c)),
                S.out \o << Msg("player_left", to, info.roomId, info.playerId, << >>),
                            Msg("chat", to, info.roomId, 0, sysMsg) >>)
        ELSE St(S.rooms, Del(S.clients, Key(c)), S.out)

\* A leave that removes the player and tells nobody.
doLeaveQuiet(S, w, c) ==
  IF ~HasInfo(S.clients, c) \/ S.clients[Key(c)].roomId = NoRoom
  THEN S
  ELSE
    LET info == S.clients[Key(c)]
    IN  St([S.rooms EXCEPT ![info.roomId].players = Del(@, info.playerId)],
           [S.clients EXCEPT ![Key(c)].roomId = NoRoom],
           S.out)

\* A leave that announces the leave and clears the session's room, but
\* forgets to delete the player entry.
doLeaveStay(S, w, c) ==
  IF ~HasInfo(S.clients, c) \/ S.clients[Key(c)].roomId = NoRoom
  THEN S
  ELSE
    LET info == S.clients[Key(c)]
        sysMsg == SysMsg("left", info.name)
        to == broadcast(S.clients, w, info.roomId, NoWs)
    IN  St([S.rooms EXCEPT ![info.roomId].chatHistory = Append(@, sysMsg)],
           [S.clients EXCEPT ![Key(c)].roomId = NoRoom],
           S.out \o << Msg("player_left", to, info.roomId, info.playerId, << >>),
                       Msg("chat", to, info.roomId, 0, sysMsg) >>)

\* doLeave(ws, info) of the Map-keyed server; info is clients.get(ws)
doLeave(S, w, c) ==
  IF ~HasInfo(S.clients, c) \/ S.clients[Key(c)].roomId = NoRoom
  THEN S
  ELSE
    LET info == S.clients[Key(c)]
        sysMsg == SysMsg("left", info.name)
        to == broadcast(S.clients, w, info.roomId, NoWs)
    IN  St([S.rooms EXCEPT ![info.roomId].players = Del(@, info.playerId),
                            ![info.roomId].chatHistory = Append(@, sysMsg)],
           [S.clients EXCEPT ![Key(c)].roomId = NoRoom],
           S.out \o << Msg("player_left", to, info.roomId, info.playerId, << >>),
                       Msg("chat", to, info.roomId, 0, sysMsg) >>)

Leave(S, w, c) == IF variant = "obj" THEN leaveRoom(S, w, c) ELSE doLeave(S, w, c)

\* An event: its kind, the socket it is for, the message's payload (0 when none).
Event(op, c, arg) == [op |-> op, ws |-> c, arg |-> arg]

\* The handler returned: its state and what it sent.
Done(S, ev) ==
  /\ rooms' = S.rooms
  /\ clients' = S.clients
  /\ out' = S.out
  /\ last' = ev
  /\ crashed' = FALSE
  /\ steps' = steps + 1
  /\ UNCHANGED wordVars

\* The handler threw: what it did before the throw stays, the process ends.
Threw(S, ev) ==
  /\ rooms' = S.rooms
  /\ clients' = S.clients
  /\ out' = S.out
  /\ last' = ev
  /\ crashed' = TRUE
  /\ steps' = steps + 1
  /\ UNCHANGED wordVars

----------------------------------------------------------------------------
(* Initial state: the rooms are seeded, nobody is connected. *)

Capacity(r) == IF r = 1 THEN 1 ELSE MaxCap

Start ==
  /\ rooms = [r \in RoomIds |-> createRoom(Capacity(r), DecoDraws(r))]
  /\ clients = EmptyFn
  /\ ws = [c \in Conns |-> [readyState |-> "NONE", playerId |-> 0]]
  /\ out = << >>
  /\ last = Event("init", NoWs, 0)
  /\ crashed = FALSE
  /\ steps = 0
  /\ battleRooms = EmptyFn
  /\ raceRooms = EmptyFn
  /\ members = [s \in Sockets |-> {}]
  /\ sock = [s \in Sockets |-> "none"]

Init == variant \in {"obj", "map"} /\ Start

----------------------------------------------------------------------------
(* wss.on('connection') *)

Connect(c) ==
  /\ ~crashed
  /\ steps < MaxSteps
  /\ ws[c].readyState = "NONE"
  /\ \A d \in Conns : d < c => ws[d].readyState # "NONE"
  /\ LET playerId == uuidv4(c)
         w == [ws EXCEPT ![c].readyState = "OPEN", ![c].playerId = playerId]
         cl == Put(clients, Key(c),
                   [playerId |-> playerId, roomId |-> NoRoom, name |-> <<"Player">>])
     IN  /\ ws' = w
         /\ Done(St(rooms, cl, << Msg("welcome", sendTo(w, c), NoRoom, playerId, << >>) >>),
                 Event("connection", c, 0))
  /\ UNCHANGED variant

----------------------------------------------------------------------------
(* ws.on('message'): one action per message type *)

\* Inputs
JoinTargets == RoomIds \cup {UnknownRoom}
JoinNames(c) == IF c = 1 THEN { <<"Ann">> } ELSE { << >> }   \* msg.name, << >> when absent
Spawns == { [x |-> "-1", z |-> "1"], [x |-> "3", z |-> "-1"] }  \* (Math.random()-0.5)*10
MoveInputs == { [x |-> "1", y |-> "2", z |-> "3", rotY |-> "abc"] }
Texts == { <<"h", "e", "y">> }
PlaceCells == { <<0, 1, 0>> }
BlockTypes == { "stone", "air" }
MapInputs == { << Block(1, 3, 1, "wood"), Block(1, 3, 1, "sand") >>,
               NotAList }

\* A message is taken from an open socket, while the process runs.
Receives(c) ==
  /\ ~crashed
  /\ ws[c].readyState = "OPEN"
  /\ steps < MaxSteps
  /\ UNCHANGED <<variant, ws>>

PlayerCount(room) == Cardinality(DOMAIN room.players)

\* A capacity test that lets one player too many in.
IsFullOffByOne(room) == PlayerCount(room) > room.maxPlayers

\* Object.keys(room.players).length >= room.maxPlayers
IsFull(room) == PlayerCount(room) >= room.maxPlayers

\* room.players[playerId] = { id, name, color, x: spawnX, y: 2, z: spawnZ, rotY: 0, ... }
NewPlayer(playerId, name, spawn) ==
  [id |-> playerId, name |-> name, x |-> spawn.x, y |-> "2", z |-> spawn.z, rotY |-> "0"]

FullText == IF variant = "obj" THEN "Room is full" ELSE "Room full"

\* msg.name || ('Player_' + playerId.slice(0,6))   /   String(msg.name || 'Player').slice(0,24)
PlayerName(name, playerId) ==
  IF name # << >> THEN name
  ELSE IF variant = "obj" THEN <<"Player_", playerId>> ELSE <<"Player">>

\* case 'join_room'
JoinRoom(c, roomId, name, spawn) ==
  /\ Receives(c)
  /\ LET ev == Event("join_room", c, [roomId |-> roomId, name |-> name, spawn |-> spawn])
         S0 == St(rooms, clients, << >>)
         reply(text) == << Msg("error", sendTo(ws, c), NoRoom, 0, text) >>
     IN
     IF roomId \notin RoomIds
     THEN Done(St(rooms, clients, reply("Room not found")), ev)
     ELSE IF IsFull(rooms[roomId])
     THEN Done(St(rooms, clients, reply(FullText)), ev)
     ELSE IF ~HasInfo(clients, c)
     THEN Threw(S0, ev)                        \* info.roomId of undefined (obj only)
     ELSE
       LET info == clients[Key(c)]
           S1 == IF info.roomId # NoRoom THEN Leave(S0, ws, c) ELSE S0
           \* obj: the closure's playerId;  map: info.playerId
           playerId == IF variant = "obj" THEN ws[c].playerId ELSE info.playerId
           playerName == PlayerName(name, playerId)
           \* info.roomId = ..., info.name = ...: info is the object fetched at the
           \* start; it is in the registry unless leaveRoom deleted it.
           cl2 == IF HasInfo(S1.clients, c)
                  THEN [S1.clients EXCEPT ![Key(c)].roomId = roomId,
                                          ![Key(c)].name = playerName]
                  ELSE S1.clients
           player == NewPlayer(playerId, playerName, spawn)
           rm2 == [S1.rooms EXCEPT ![roomId].players = Put(@, playerId, player)]
           joined == Msg("room_joined", sendTo(ws, c), roomId, playerId,
                         [players |-> rm2[roomId].players,
                          mapData |-> rm2[roomId].mapData,
                          chatHistory |-> SliceLast(rm2[roomId].chatHistory, ChatTail)])
           others == Msg("player_joined", broadcast(cl2, ws, roomId, c), roomId,
                         playerId, player)
           sysMsg == SysMsg("joined", playerName)
           rm3 == [rm2 EXCEPT ![roomId].chatHistory = Append(@, sysMsg)]
           chat == Msg("chat", broadcast(cl2, ws, roomId, NoWs), roomId, 0, sysMsg)
       IN  Done(St(rm3, cl2, S1.out \o <<joined, others, chat>>), ev)

\* case 'move'
Move(c, m) ==
  /\ Receives(c)
  /\ LET ev == Event("move", c, m)
         S0 == St(rooms, clients, << >>)
     IN
     IF ~HasInfo(clients, c)
     THEN (IF variant = "obj" THEN Threw(S0, ev) ELSE Done(S0, ev))
     ELSE
       LET info == clients[Key(c)]
           playerId == IF variant = "obj" THEN ws[c].playerId ELSE info.playerId
       IN  IF info.roomId = NoRoom \/ playerId \notin DOMAIN rooms[info.roomId].players
           THEN Done(S0, ev)
           ELSE
             LET val(v) == IF variant = "obj" THEN v ELSE ToNumberOr0(v)
                 p == [rooms[info.roomId].players[playerId] EXCEPT
                         !.x = val(m.x), !.y = val(m.y), !.z = val(m.z),
                         !.rotY = val(m.rotY)]
                 rm == [rooms EXCEPT ![info.roomId].players[playerId] = p]
                 moved == Msg("player_moved", broadcast(clients, ws, info.roomId, c),
                              info.roomId, playerId,
                              [x |-> p.x, y |-> p.y, z |-> p.z, rotY |-> p.rotY])
             IN  Done(St(rm, clients, <<moved>>), ev)

\* room.chatHistory.push(chatMsg); if (room.chatHistory.length > 100) room.chatHistory.shift()
PushChat(h, e) ==
  LET pushed == Append(h, e)
  IN  IF Len(pushed) > MaxChat THEN Tail(pushed) ELSE pushed

\* A chat handler that files the line in every room's history.
ChatAllRooms(c, text) ==
  /\ Receives(c)
  /\ LET ev == Event("chat", c, text)
         S0 == St(rooms, clients, << >>)
     IN
     IF ~HasInfo(clients, c) \/ clients[Key(c)].roomId = NoRoom
     THEN Done(S0, ev)
     ELSE
       LET info == clients[Key(c)]
           chatMsg == [sender |-> info.name, sys |-> "", text |-> SliceTo(text, TextCap)]
           rm == [r \in RoomIds |->
                    [rooms[r] EXCEPT !.chatHistory = PushChat(@, chatMsg)]]
           chat == Msg("chat", broadcast(clients, ws, info.roomId, NoWs),
                       info.roomId, 0, chatMsg)
       IN  Done(St(rm, clients, <<chat>>), ev)

\* case 'chat'
Chat(c, text) ==
  /\ Receives(c)
  /\ LET ev == Event("chat", c, text)
         S0 == St(rooms, clients, << >>)
     IN
     IF ~HasInfo(clients, c)
     THEN (IF variant = "obj" THEN Threw(S0, ev) ELSE Done(S0, ev))
     ELSE
       LET info == clients[Key(c)]
       IN  IF info.roomId = NoRoom
           THEN Done(S0, ev)
           ELSE
             LET chatMsg == [sender |-> info.name, sys |-> "",
                             text |-> SliceTo(text, TextCap)]
                 rm == [rooms EXCEPT ![info.roomId].chatHistory = PushChat(@, chatMsg)]
                 chat == Msg("chat", broadcast(clients, ws, info.roomId, NoWs),
                             info.roomId, 0, chatMsg)
             IN  Done(St(rm, clients, <<chat>>), ev)

\* A place that pushes the new block and leaves the old entries of the cell.
SetBlockKeep(m, x, y, z, blockType) ==
  IF blockType # "air" THEN Append(m, Block(x, y, z, blockType)) ELSE m

\* room.mapData = room.mapData.filter(...); if (blockType !== 'air') room.mapData.push(...)
SetBlock(m, x, y, z, blockType) ==
  LET kept == RemoveCell(m, x, y, z)
  IN  IF blockType # "air" THEN Append(kept, Block(x, y, z, blockType)) ELSE kept

\* case 'place_block'
PlaceBlock(c, cell, blockType) ==
  /\ Receives(c)
  /\ LET ev == Event("place_block", c, Block(cell[1], cell[2], cell[3], blockType))
         S0 == St(rooms, clients, << >>)
     IN
     IF ~HasInfo(clients, c)
     THEN (IF variant = "obj" THEN Threw(S0, ev) ELSE Done(S0, ev))
     ELSE
       LET info == clients[Key(c)]
       IN  IF info.roomId = NoRoom
           THEN Done(S0, ev)
           ELSE IF ~IsArray(rooms[info.roomId].mapData)
           THEN Threw(S0, ev)                  \* mapData.filter is not a function
           ELSE
             LET rm == [rooms EXCEPT ![info.roomId].mapData =
                          SetBlock(@, cell[1], cell[2], cell[3], blockType)]
                 upd == Msg("block_update", broadcast(clients, ws, info.roomId, NoWs),
                            info.roomId, 0, Block(cell[1], cell[2], cell[3], blockType))
             IN  Done(St(rm, clients, <<upd>>), ev)

\* case 'save_map'
SaveMap(c, mapData) ==
  /\ Receives(c)
  /\ LET ev == Event("save_map", c, mapData)
         S0 == St(rooms, clients, << >>)
     IN
     IF ~HasInfo(clients, c)
     THEN (IF variant = "obj" THEN Threw(S0, ev) ELSE Done(S0, ev))
     ELSE
       LET info == clients[Key(c)]
       IN  IF info.roomId = NoRoom \/ (variant = "map" /\ ~IsArray(mapData))
           THEN Done(S0, ev)
           ELSE
             LET rm == [rooms EXCEPT ![info.roomId].mapData = mapData]
                 reload == Msg("map_reload", broadcast(clients, ws, info.roomId, NoWs),
                               info.roomId, 0, mapData)
                 ack == Msg("info", sendTo(ws, c), NoRoom, 0, "Map synced")
             IN  Done(St(rm, clients, <<reload, ack>>), ev)

\* Payloads no case of the switch takes: text that is not JSON, the JSON text
\* null, an object whose type is none of the cases.
Payloads == {"not json", "null", "unknown type"}

\* ws.on('message') up to the switch, for those payloads:
\*   try { msg = JSON.parse(raw); } catch { return; }
\*   const info = clients[ws];          (map: ... if (!info) return;)
\*   switch (msg.type) { ... }          msg.type of null throws a TypeError
Malformed(c, payload) ==
  /\ Receives(c)
  /\ LET ev == Event("malformed", c, payload)
         S0 == St(rooms, clients, << >>)
     IN
     IF payload = "not json"
     THEN Done(S0, ev)
     ELSE IF variant = "map" /\ ~HasInfo(clients, c)
     THEN Done(S0, ev)
     ELSE IF payload = "null"
     THEN Threw(S0, ev)
     ELSE Done(S0, ev)

----------------------------------------------------------------------------
(* ws.on('error') and ws.on('close').  The ws library emits 'error' on a     *)
(* socket it has already moved out of OPEN, and 'close' after it; 'close'    *)
(* also comes alone.                                                         *)

WsError(c) ==
  /\ ~crashed
  /\ ws[c].readyState = "OPEN"
  /\ steps < MaxSteps
  /\ LET w == [ws EXCEPT ![c].readyState = "CLOSING"]
         S0 == St(rooms, clients, << >>)
     IN  /\ ws' = w
         /\ Done(IF variant = "obj" THEN leaveRoom(S0, w, c) ELSE S0,
                 Event("error", c, 0))
  /\ UNCHANGED variant

WsClose(c) ==
  /\ ~crashed
  /\ ws[c].readyState \in {"OPEN", "CLOSING"}
  /\ steps < MaxSteps
  /\ LET w == [ws EXCEPT ![c].readyState = "CLOSED"]
         S0 == St(rooms, clients, << >>)
         S1 == doLeave(S0, w, c)
     IN  /\ ws' = w
         /\ Done(IF variant = "obj" THEN leaveRoom(S0, w, c)
                 ELSE St(S1.rooms, Del(S1.clients, Key(c)), S1.out),
                 Event("close", c, 0))
  /\ UNCHANGED variant

----------------------------------------------------------------------------

Next ==
  \/ \E c \in Conns : Connect(c)
  \/ \E c \in Conns, roomId \in JoinTargets, spawn \in Spawns :
       \E name \in JoinNames(c) : JoinRoom(c, roomId, name, spawn)
  \/ \E c \in Conns, m \in MoveInputs : Move(c, m)
  \/ \E c \in Conns, text \in Texts : Chat(c, text)
  \/ \E c \in Conns, cell \in PlaceCells, blockType \in BlockTypes :
       PlaceBlock(c, cell, blockType)
  \/ \E c \in Conns, mapData \in MapInputs : SaveMap(c, mapData)
  \/ \E c \in Conns, payload \in Payloads : Malformed(c, payload)
  \/ \E c \in Conns : WsError(c)
  \/ \E c \in Conns : WsClose(c)

Spec == Init /\ [][Next]_vars

InitObj == Init /\ variant = "obj"
InitMap == Init /\ variant = "map"
SpecObj == InitObj /\ [][Next]_vars
SpecMap == InitMap /\ [][Next]_vars

----------------------------------------------------------------------------
(* The word-game server (socket.io), battle mode.  A socket's id is its    *)
(* number; a player's name is fixed per socket; lang is left out (no       *)
(* handler reads it back but battle:join, which only relays it).           *)

NoWinner == 0       \* winner: null
NoWord == << >>     \* word: null
NoPlayer == [id |-> 0, name |-> << >>, word |-> NoWord]    \* p2: null

NameOf(s) == <<"P", s>>
Words == { <<"k", "a", "t", "a">> }

BPlayer(s) == [id |-> s, name |-> NameOf(s), word |-> NoWord]

\* io.to(roomId): the connected sockets that joined roomId
ioTo(mem, roomId) == {s \in Sockets : sock[s] = "connected" /\ roomId \in mem[s]}

\* io.to(socketId): that socket, while it is connected
ioToSocket(id) == {s \in Sockets : s = id /\ sock[s] = "connected"}

\* A socket.io event reaches the handler of a connected socket.
Emits(s) ==
  /\ variant = "word"
  /\ ~crashed
  /\ sock[s] = "connected"
  /\ steps < MaxWordSteps
  /\ UNCHANGED <<variant, rooms, clients, ws>>

WordDone(br, mem, o, ev) ==
  /\ battleRooms' = br
  /\ UNCHANGED raceRooms
  /\ members' = mem
  /\ out' = o
  /\ last' = ev
  /\ crashed' = FALSE
  /\ steps' = steps + 1

WordThrew(br, mem, o, ev) ==
  /\ battleRooms' = br
  /\ UNCHANGED raceRooms
  /\ members' = mem
  /\ out' = o
  /\ last' = ev
  /\ crashed' = TRUE
  /\ steps' = steps + 1

\* io.on("connection")
SocketConnect(s) ==
  /\ variant = "word"
  /\ ~crashed
  /\ steps < MaxWordSteps
  /\ sock[s] = "none"
  /\ \A t \in Sockets : t < s => sock[t] # "none"
  /\ sock' = [sock EXCEPT ![s] = "connected"]
  /\ WordDone(battleRooms, members, << >>, Event("connection", s, 0))
  /\ UNCHANGED <<variant, rooms, clients, ws>>

\* socket.on("battle:create"); roomId is what makeId(5) drew
BattleCreate(s, roomId) ==
  /\ Emits(s)
  /\ UNCHANGED sock
  /\ WordDone(Put(battleRooms, roomId,
                  [p1 |-> BPlayer(s), p2 |-> NoPlayer, winner |-> NoWinner]),
              [members EXCEPT ![s] = @ \cup {roomId}],
              << Msg("battle:created", {s}, roomId, 0, "p1") >>,
              Event("battle:create", s, roomId))

\* socket.on("battle:join")
BattleJoin(s, roomId) ==
  /\ Emits(s)
  /\ UNCHANGED sock
  /\ LET ev == Event("battle:join", s, roomId)
         err(text) == << Msg("battle:error", {s}, roomId, 0, text) >>
     IN
     IF roomId \notin DOMAIN battleRooms
     THEN WordDone(battleRooms, members, err("Room tidak ditemukan!"), ev)
     ELSE IF battleRooms[roomId].p2 # NoPlayer
     THEN WordDone(battleRooms, members, err("Room sudah penuh!"), ev)
     ELSE
       LET br == [battleRooms EXCEPT ![roomId].p2 = BPlayer(s)]
           mem == [members EXCEPT ![s] = @ \cup {roomId}]
       IN  WordDone(br, mem,
                    << Msg("battle:joined", {s}, roomId, 0, "p2"),
                       Msg("battle:opponent_joined", ioToSocket(br[roomId].p1.id),
                           roomId, 0, NameOf(s)),
                       Msg("battle:enter_word", ioTo(mem, roomId), roomId, 0, << >>) >>,
                    ev)

\* socket.on("battle:set_word")
BattleSetWord(s, roomId, word) ==
  /\ Emits(s)
  /\ UNCHANGED sock
  /\ LET ev == Event("battle:set_word", s, [roomId |-> roomId, word |-> word])
     IN
     IF roomId \notin DOMAIN battleRooms
     THEN WordDone(battleRooms, members, << >>, ev)
     ELSE
       LET room == battleRooms[roomId]
           r2 == IF room.p1.id = s THEN [room EXCEPT !.p1.word = word]
                 ELSE IF room.p2 # NoPlayer /\ room.p2.id = s
                 THEN [room EXCEPT !.p2.word = word]
                 ELSE room
           locked == << Msg("battle:word_locked", {s}, roomId, 0, << >>) >>
           start(me, other) ==
             Msg("battle:start", ioToSocket(me.id), roomId, 0,
                 [yourWord |-> me.word, guessWord |-> other.word,
                  opponentName |-> other.name])
       IN  WordDone([battleRooms EXCEPT ![roomId] = r2], members,
                    IF r2.p1.word # NoWord /\ r2.p2 # NoPlayer /\ r2.p2.word # NoWord
                    THEN locked \o << start(r2.p1, r2.p2), start(r2.p2, r2.p1) >>
                    ELSE locked,
                    ev)

\* room.p1?.id === socket.id ? room.p1.name : room.p2?.name
winnerName(room, s) ==
  IF room.p1.id = s THEN room.p1.name
  ELSE IF room.p2 # NoPlayer THEN room.p2.name
  ELSE << >>

\* socket.on("battle:win")
BattleWin(s, roomId) ==
  /\ Emits(s)
  /\ UNCHANGED sock
  /\ LET ev == Event("battle:win", s, roomId)
     IN
     IF roomId \notin DOMAIN battleRooms \/ battleRooms[roomId].winner # NoWinner
     THEN WordDone(battleRooms, members, << >>, ev)
     ELSE WordDone([battleRooms EXCEPT ![roomId].winner = s], members,
                   << Msg("battle:result", ioTo(members, roomId), roomId, s,
                          winnerName(battleRooms[roomId], s)) >>,
                   ev)

\* socket.on("battle:restart")
BattleRestart(s, roomId) ==
  /\ Emits(s)
  /\ UNCHANGED sock
  /\ LET ev == Event("battle:restart", s, roomId)
     IN
     IF roomId \notin DOMAIN battleRooms
     THEN WordDone(battleRooms, members, << >>, ev)
     ELSE IF battleRooms[roomId].p2 = NoPlayer
     THEN \* room.p1.word = null is done, room.p2.word = null throws
          WordThrew([battleRooms EXCEPT ![roomId].p1.word = NoWord], members, << >>, ev)
     ELSE WordDone([battleRooms EXCEPT ![roomId].p1.word = NoWord,
                                       ![roomId].p2.word = NoWord,
                                       ![roomId].winner = NoWinner],
                   members,
                   << Msg("battle:enter_word", ioTo(members, roomId), roomId, 0, << >>) >>,
                   ev)

\* socket.on("battle:leave")
BattleLeave(s, roomId) ==
  /\ Emits(s)
  /\ UNCHANGED sock
  /\ LET ev == Event("battle:leave", s, roomId)
         mem == [members EXCEPT ![s] = @ \ {roomId}]
     IN
     IF roomId \in DOMAIN battleRooms
     THEN WordDone(Del(battleRooms, roomId), mem,
                   << Msg("battle:opponent_left", ioTo(members, roomId), roomId, 0, << >>) >>,
                   ev)
     ELSE WordDone(battleRooms, mem, << >>, ev)

----------------------------------------------------------------------------
(* The word-game server, race mode.  A room's players are kept in the      *)
(* order of their keys in the players object (the order they were first    *)
(* added in); lang is left out.                                            *)

NoRaceWinner == [id |-> 0, name |-> << >>, guesses |-> 0]    \* winner: null

Solutions == { <<"k", "a", "t", "a">> }
WinGuesses == {3}        \* the guesses of a race:win payload
LoseGuesses == 6         \* race:lose sets guesses = 6
Unranked == 99           \* a.guesses || 99

RPlayer(s) == [id |-> s, name |-> NameOf(s), won |-> FALSE, guesses |-> 0]

\* room.players[socket.id]
HasPlayer(room, s) == \E i \in DOMAIN room.players : room.players[i].id = s

\* room.players[socket.id] = p: a key already there keeps its place
SetPlayer(players, p) ==
  IF \E i \in DOMAIN players : players[i].id = p.id
  THEN [i \in DOMAIN players |-> IF players[i].id = p.id THEN p ELSE players[i]]
  ELSE Append(players, p)

\* delete room.players[socket.id]
RECURSIVE DelPlayer(_, _)
DelPlayer(players, s) ==
  IF players = << >> THEN << >>
  ELSE (IF Head(players).id = s THEN << >> ELSE <<Head(players)>>)
       \o DelPlayer(Tail(players), s)

\* The comparator of getPlayerList says a goes before b.
GoesBefore(a, b) ==
  LET rank(p) == IF p.guesses = 0 THEN Unranked ELSE p.guesses
  IN  IF a.won /\ ~b.won THEN TRUE
      ELSE IF ~a.won /\ b.won THEN FALSE
      ELSE rank(a) < rank(b)

\* p put into a sorted list, after the entries it does not go before (stable).
RECURSIVE InsertSorted(_, _)
InsertSorted(sorted, p) ==
  IF sorted = << >> THEN <<p>>
  ELSE IF GoesBefore(p, Head(sorted)) THEN <<p>> \o sorted
  ELSE <<Head(sorted)>> \o InsertSorted(Tail(sorted), p)

RECURSIVE SortPlayers(_, _)
SortPlayers(players, n) ==
  IF n = 0 THEN << >> ELSE InsertSorted(SortPlayers(players, n - 1), players[n])

\* getPlayerList(room)
getPlayerList(room) == SortPlayers(room.players, Len(room.players))

RaceDone(rr, mem, o, ev) ==
  /\ raceRooms' = rr
  /\ members' = mem
  /\ out' = o
  /\ last' = ev
  /\ crashed' = FALSE
  /\ steps' = steps + 1
  /\ UNCHANGED <<battleRooms, sock>>

RaceThrew(rr, mem, o, ev) ==
  /\ raceRooms' = rr
  /\ members' = mem
  /\ out' = o
  /\ last' = ev
  /\ crashed' = TRUE
  /\ steps' = steps + 1
  /\ UNCHANGED <<battleRooms, sock>>

\* io.to(roomId).emit("race:players", getPlayerList(room))
PlayersMsg(mem, roomId, room) ==
  Msg("race:players", ioTo(mem, roomId), roomId, 0, getPlayerList(room))

\* socket.on("race:create"); roomId is what makeId(4) drew
RaceCreate(s, roomId, solution) ==
  /\ Emits(s)
  /\ RaceDone(Put(raceRooms, roomId,
                  [solution |-> solution, winner |-> NoRaceWinner, hostId |-> s,
                   players |-> <<RPlayer(s)>>]),
              [members EXCEPT ![s] = @ \cup {roomId}],
              << Msg("race:created", {s}, roomId, 0, << >>) >>,
              Event("race:create", s, [roomId |-> roomId, solution |-> solution]))

\* socket.on("race:join")
RaceJoin(s, roomId) ==
  /\ Emits(s)
  /\ LET ev == Event("race:join", s, roomId)
     IN
     IF roomId \notin DOMAIN raceRooms
     THEN RaceDone(raceRooms, members,
                   << Msg("race:error", {s}, roomId, 0, "Room tidak ditemukan!") >>, ev)
     ELSE
       LET rr == [raceRooms EXCEPT ![roomId].players = SetPlayer(@, RPlayer(s))]
           mem == [members EXCEPT ![s] = @ \cup {roomId}]
       IN  RaceDone(rr, mem,
                    << Msg("race:joined", {s}, roomId, 0, rr[roomId].solution),
                       PlayersMsg(mem, roomId, rr[roomId]) >>,
                    ev)

\* socket.on("race:guess")
RaceGuess(s, roomId) ==
  /\ Emits(s)
  /\ LET ev == Event("race:guess", s, roomId)
     IN
     IF roomId \notin DOMAIN raceRooms \/ ~HasPlayer(raceRooms[roomId], s)
     THEN RaceDone(raceRooms, members, << >>, ev)
     ELSE
       LET rr == [raceRooms EXCEPT ![roomId].players =
                    [i \in DOMAIN @ |->
                       IF @[i].id = s THEN [@[i] EXCEPT !.guesses = @ + 1] ELSE @[i]]]
       IN  RaceDone(rr, members, << PlayersMsg(members, roomId, rr[roomId]) >>, ev)

\* socket.on("race:win")
RaceWin(s, roomId, guesses) ==
  /\ Emits(s)
  /\ LET ev == Event("race:win", s, [roomId |-> roomId, guesses |-> guesses])
     IN
     IF roomId \notin DOMAIN raceRooms \/ raceRooms[roomId].winner # NoRaceWinner
     THEN RaceDone(raceRooms, members, << >>, ev)
     ELSE IF ~HasPlayer(raceRooms[roomId], s)
     THEN \* room.players[socket.id].won = true: players[socket.id] is undefined
          RaceThrew(raceRooms, members, << >>, ev)
     ELSE
       LET rr == [raceRooms EXCEPT
                    ![roomId].players =
                      [i \in DOMAIN @ |->
                         IF @[i].id = s
                         THEN [@[i] EXCEPT !.won = TRUE, !.guesses = guesses] ELSE @[i]],
                    ![roomId].winner =
                      [id |-> s,
                       name |-> raceRooms[roomId].players[
                                  CHOOSE i \in DOMAIN raceRooms[roomId].players :
                                    raceRooms[roomId].players[i].id = s].name,
                       guesses |-> guesses]]
       IN  RaceDone(rr, members,
                    << PlayersMsg(members, roomId, rr[roomId]),
                       Msg("race:winner", ioTo(members, roomId), roomId, s,
                           rr[roomId].winner) >>,
                    ev)

\* socket.on("race:restart")
RaceRestart(s, roomId, solution) ==
  /\ Emits(s)
  /\ LET ev == Event("race:restart", s, [roomId |-> roomId, solution |-> solution])
     IN
     IF roomId \notin DOMAIN raceRooms \/ raceRooms[roomId].hostId # s
     THEN RaceDone(raceRooms, members, << >>, ev)
     ELSE
       LET rr == [raceRooms EXCEPT
                    ![roomId].solution = solution,
                    ![roomId].winner = NoRaceWinner,
                    ![roomId].players =
                      [i \in DOMAIN @ |-> [@[i] EXCEPT !.won = FALSE, !.guesses = 0]]]
       IN  RaceDone(rr, members,
                    << Msg("race:restarted", ioTo(members, roomId), roomId, 0, solution),
                       PlayersMsg(members, roomId, rr[roomId]) >>,
                    ev)

\* The race rooms after socket s is taken out of room roomId, and what is emitted.
LeaveRace(rr, mem, roomId, s) ==
  LET left == DelPlayer(rr[roomId].players, s)
  IN  IF left = << >>
      THEN [rooms |-> Del(rr, roomId), out |-> << >>]
      ELSE [rooms |-> [rr EXCEPT ![roomId].players = left],
            out |-> << PlayersMsg(mem, roomId, [rr[roomId] EXCEPT !.players = left]) >>]

\* socket.on("race:leave")
RaceLeave(s, roomId) ==
  /\ Emits(s)
  /\ LET ev == Event("race:leave", s, roomId)
         mem == [members EXCEPT ![s] = @ \ {roomId}]
     IN
     IF roomId \in DOMAIN raceRooms /\ HasPlayer(raceRooms[roomId], s)
     THEN LET L == LeaveRace(raceRooms, members, roomId, s)
          IN  RaceDone(L.rooms, mem, L.out, ev)
     ELSE RaceDone(raceRooms, mem, << >>, ev)

\* socket.on("race:lose")
RaceLose(s, roomId) ==
  /\ Emits(s)
  /\ LET ev == Event("race:lose", s, roomId)
     IN
     IF roomId \notin DOMAIN raceRooms \/ ~HasPlayer(raceRooms[roomId], s)
     THEN RaceDone(raceRooms, members, << >>, ev)
     ELSE
       LET rr == [raceRooms EXCEPT ![roomId].players =
                    [i \in DOMAIN @ |->
                       IF @[i].id = s
                       THEN [@[i] EXCEPT !.won = FALSE, !.guesses = LoseGuesses]
                       ELSE @[i]]]
       IN  RaceDone(rr, members, << PlayersMsg(members, roomId, rr[roomId]) >>, ev)

\* The race part of a disconnect: s is taken out of every race room it is a
\* player of, in the order of the room ids.
RECURSIVE DropFromRaces(_, _, _, _)
DropFromRaces(R, mem, s, n) ==
  IF n > NumBattle + NumRace THEN R
  ELSE IF n \in DOMAIN R.rooms /\ HasPlayer(R.rooms[n], s)
  THEN LET L == LeaveRace(R.rooms, mem, n, s)
       IN  DropFromRaces([rooms |-> L.rooms, out |-> R.out \o L.out], mem, s, n + 1)
  ELSE DropFromRaces(R, mem, s, n + 1)

\* A test that looks at p1 only.
RoomsOfP1(s) == {roomId \in DOMAIN battleRooms : battleRooms[roomId].p1.id = s}

\* The battle rooms a disconnecting socket is p1 or p2 of.
RoomsOf(s) ==
  {roomId \in DOMAIN battleRooms :
     \/ battleRooms[roomId].p1.id = s
     \/ battleRooms[roomId].p2 # NoPlayer /\ battleRooms[roomId].p2.id = s}

\* The opponent_left messages of a disconnect, in the order of the room ids.
RECURSIVE LeftMsgs(_, _, _)
LeftMsgs(ids, mem, n) ==
  IF n > NumBattle THEN << >>
  ELSE (IF n \in ids
        THEN << Msg("battle:opponent_left", ioTo(mem, n), n, 0, << >>) >>
        ELSE << >>) \o LeftMsgs(ids, mem, n + 1)

\* socket.on("disconnect"): the socket has left its socket.io rooms by then
SocketDisconnect(s) ==
  /\ variant = "word"
  /\ ~crashed
  /\ steps < MaxWordSteps
  /\ sock[s] = "connected"
  /\ sock' = [sock EXCEPT ![s] = "gone"]
  /\ LET mem == [members EXCEPT ![s] = {}]
         gone == RoomsOf(s)
         R == DropFromRaces([rooms |-> raceRooms, out |-> << >>], mem, s, NumBattle + 1)
     IN  /\ battleRooms' = [roomId \in DOMAIN battleRooms \ gone |-> battleRooms[roomId]]
         /\ raceRooms' = R.rooms
         /\ members' = mem
         /\ out' = LeftMsgs(gone, mem, 1) \o R.out
         /\ last' = Event("disconnect", s, 0)
         /\ crashed' = FALSE
         /\ steps' = steps + 1
  /\ UNCHANGED <<variant, rooms, clients, ws>>

NextWord ==
  \/ \E s \in Sockets : SocketConnect(s)
  \/ \E s \in Sockets, roomId \in BattleIds : BattleCreate(s, roomId)
  \/ \E s \in Sockets, roomId \in BattleIds : BattleJoin(s, roomId)
  \/ \E s \in Sockets, roomId \in BattleIds, word \in Words : BattleSetWord(s, roomId, word)
  \/ \E s \in Sockets, roomId \in BattleIds : BattleWin(s, roomId)
  \/ \E s \in Sockets, roomId \in BattleIds : BattleRestart(s, roomId)
  \/ \E s \in Sockets, roomId \in BattleIds : BattleLeave(s, roomId)
  \/ \E s \in Sockets, roomId \in RaceIds, solution \in Solutions :
       RaceCreate(s, roomId, solution)
  \/ \E s \in Sockets, roomId \in RaceIds : RaceJoin(s, roomId)
  \/ \E s \in Sockets, roomId \in RaceIds : RaceGuess(s, roomId)
  \/ \E s \in Sockets, roomId \in RaceIds, guesses \in WinGuesses :
       RaceWin(s, roomId, guesses)
  \/ \E s \in Sockets, roomId \in RaceIds, solution \in Solutions :
       RaceRestart(s, roomId, solution)
  \/ \E s \in Sockets, roomId \in RaceIds : RaceLeave(s, roomId)
  \/ \E s \in Sockets, roomId \in RaceIds : RaceLose(s, roomId)
  \/ \E s \in Sockets : SocketDisconnect(s)

InitWord == variant = "word" /\ Start
SpecWord == InitWord /\ [][NextWord]_vars

----------------------------------------------------------------------------
(* Vocabulary of the properties *)

Open(c) == ws[c].readyState = "OPEN"
Pid(c) == ws[c].playerId                      \* the id of c's welcome
Occupant(c, r) == Pid(c) \in DOMAIN rooms[r].players
OccupantAfter(c, r) == Pid(c) \in DOMAIN rooms'[r].players
Types(o) == [i \in DOMAIN o |-> o[i].type]
IsJoin(ev) == ev.op = "join_room"
ErrorReply(c, text) == << Msg("error", {c}, NoRoom, 0, text) >>

----------------------------------------------------------------------------
(* C1: every room's player set has at most maxPlayers entries, and a       *)
(* join_room aimed at a room whose player count equals maxPlayers leaves   *)
(* that room's player set unchanged and is answered to the requester with  *)
(* an error message and nothing else.                                      *)

CapacityKept == \A r \in RoomIds : PlayerCount(rooms'[r]) <= rooms'[r].maxPlayers

FullJoinRejected ==
  \A r \in RoomIds :
    (IsJoin(last') /\ last'.arg.roomId = r /\ PlayerCount(rooms[r]) = rooms[r].maxPlayers)
    => /\ rooms'[r].players = rooms[r].players
       /\ Len(out') = 1
       /\ out'[1].type = "error"
       /\ out'[1].to = {last'.ws}

C1_Capacity == [][CapacityKept /\ FullJoinRejected]_vars

\* A join was just refused on a full room that already holds someone else.
C1_Witness ==
  /\ IsJoin(last)
  /\ last.arg.roomId \in RoomIds
  /\ PlayerCount(rooms[last.arg.roomId]) = rooms[last.arg.roomId].maxPlayers
  /\ ~Occupant(last.ws, last.arg.roomId)
  /\ Len(out) = 1
  /\ out[1].type = "error"

----------------------------------------------------------------------------
(* C2: the registry is keyed by connection identity: two distinct open     *)
(* connections look up two distinct sessions, the session looked up for a  *)
(* connection carries the player id of that connection's welcome, and a    *)
(* join by one connection never changes the room id in another             *)
(* connection's session.                                                   *)

SessionsDistinct ==
  \A c, d \in Conns : (c # d /\ Open(c) /\ Open(d)) => Key(c) # Key(d)

SessionIsOwn ==
  \A c \in Conns : Open(c) => (HasInfo(clients, c) /\ clients[Key(c)].playerId = Pid(c))

JoinLeavesOthersAlone ==
  \A d \in Conns :
    (IsJoin(last') /\ d # last'.ws /\ Open(d) /\ HasInfo(clients, d))
    => (HasInfo(clients', d) /\ clients'[Key(d)].roomId = clients[Key(d)].roomId)

C2_IdentityKeyed ==
  [][SessionsDistinct' /\ SessionIsOwn' /\ JoinLeavesOthersAlone]_vars

----------------------------------------------------------------------------
(* C3: a message broadcast for a room reaches exactly the open connections *)
(* joined to that room, minus the excluded one (the sender of a move, the  *)
(* joiner of a player_joined): nobody outside the room receives it, no     *)
(* open occupant is skipped.  The connection whose leave is announced is   *)
(* still in the room when the announcement is sent.                        *)

RoomCast == {"player_joined", "player_moved", "player_left", "chat",
             "block_update", "map_reload"}
ExcludesSender == {"player_joined", "player_moved"}

DeliveredToTheRoom(m) ==
  /\ \A c \in m.to : Open(c) /\ (Occupant(c, m.room) \/ c = last.ws)
  /\ \A c \in Conns :
       (Open(c) /\ Occupant(c, m.room) /\ ~(m.type \in ExcludesSender /\ c = last.ws))
       => c \in m.to

C3_BroadcastExact ==
  \A i \in DOMAIN out : out[i].type \in RoomCast => DeliveredToTheRoom(out[i])

----------------------------------------------------------------------------
(* C4: a room's chatHistory never holds more than the maximum number of    *)
(* entries, whatever mix of chat lines and join/leave system lines made    *)
(* it; an insert that would exceed the maximum drops the oldest entry, and *)
(* the entries stay in arrival order.                                      *)

\* h2 is h1 with its oldest entries dropped and new ones appended at the end.
FifoStep(h1, h2) ==
  \E drop \in 0..Len(h1) :
    /\ Len(h2) >= Len(h1) - drop
    /\ SubSeq(h2, 1, Len(h1) - drop) = SubSeq(h1, drop + 1, Len(h1))
    /\ (drop > 0 => Len(h2) = MaxChat)

C4_ChatBounded ==
  [][\A r \in RoomIds :
       /\ Len(rooms'[r].chatHistory) <= MaxChat
       /\ FifoStep(rooms[r].chatHistory, rooms'[r].chatHistory)]_vars

----------------------------------------------------------------------------
(* C5: a room's block map never has two entries with the same (x,y,z),     *)
(* from the default map on, and the cell of a place_block of "air" has no  *)
(* entry afterwards.                                                       *)

NoTwoAtOneCell(m) ==
  \A i, j \in DOMAIN m : (i # j) => ~SameCell(m[i], m[j].x, m[j].y, m[j].z)

AirLeavesNoEntry ==
  (last.op = "place_block" /\ last.arg.type = "air" /\ out # << >>)
  => \A i \in DOMAIN rooms[out[1].room].mapData :
       ~SameCell(rooms[out[1].room].mapData[i], last.arg.x, last.arg.y, last.arg.z)

C5_OneBlockPerCell ==
  /\ \A r \in RoomIds : NoTwoAtOneCell(rooms[r].mapData)
  /\ AirLeavesNoEntry

----------------------------------------------------------------------------
(* C6: a connection joined to room R that sends join_room for R again (R   *)
(* not full) causes, in this order, a player_left carrying its old player  *)
(* id and a room_joined to it with a newly drawn spawn position.           *)

Session(c) == clients[Key(c)]
InRoom(c, r) == HasInfo(clients, c) /\ Session(c).roomId = r /\ Occupant(c, r)

Rejoins(c, r) ==
  /\ IsJoin(last') /\ last'.ws = c /\ last'.arg.roomId = r
  /\ InRoom(c, r)
  /\ PlayerCount(rooms[r]) < rooms[r].maxPlayers

AtSpawn(p, spawn) == p.x = spawn.x /\ p.y = "2" /\ p.z = spawn.z /\ p.rotY = "0"

\* player_left for oldId, later room_joined to c carrying newId, at the drawn spawn
LeftThenJoined(c, r, oldId, newId) ==
  \E i, j \in DOMAIN out' :
    /\ i < j
    /\ out'[i].type = "player_left" /\ out'[i].room = r /\ out'[i].id = oldId
    /\ out'[j].type = "room_joined" /\ out'[j].room = r /\ out'[j].to = {c}
    /\ out'[j].id = newId
    /\ newId \in DOMAIN out'[j].data.players
    /\ AtSpawn(out'[j].data.players[newId], last'.arg.spawn)
    /\ newId \in DOMAIN rooms'[r].players
    /\ AtSpawn(rooms'[r].players[newId], last'.arg.spawn)

\* As claimed: the room_joined carries a new identifier, different from the old one.
C6_RejoinNewId ==
  [][\A c \in Conns, r \in RoomIds :
       Rejoins(c, r) =>
         \E newId \in {uuidv4(n) : n \in 1..(2 * MaxConn)} \ {Pid(c)} :
           LeftThenJoined(c, r, Pid(c), newId)]_vars

\* As the code has it (Map-keyed server): the room_joined carries the same
\* per-connection player id, the one of the connection's welcome.
C6_RejoinSameId ==
  [][\A c \in Conns, r \in RoomIds :
       Rejoins(c, r) => LeftThenJoined(c, r, Pid(c), Pid(c))]_vars

\* A rejoin of the same room just happened: the leave was announced and the
\* room_joined carries the id of the connection's welcome.
C6_Witness ==
  /\ variant = "map"
  /\ IsJoin(last)
  /\ Types(out) = <<"player_left", "chat", "room_joined", "player_joined", "chat">>
  /\ out[1].room = last.arg.roomId
  /\ out[1].id = Pid(last.ws)
  /\ out[3].id = Pid(last.ws)
  /\ out[3].to = {last.ws}

----------------------------------------------------------------------------
(* C7: room A has capacity 1, X and Y are connected.  X's join of A gets   *)
(* room_joined; Y's join of A gets error{text:"Room is full"} and A still  *)
(* has exactly 1 player; after X disconnects A has 0 players; a join of A  *)
(* by Y then gets room_joined.                                             *)

JoinOf(c, r) == IsJoin(last') /\ last'.ws = c /\ last'.arg.roomId = r

GetsRoomJoined(c, r) ==
  \E i \in DOMAIN out' :
    out'[i].type = "room_joined" /\ out'[i].room = r /\ out'[i].to = {c}

C7_CapacityOne ==
  [][\A r \in RoomIds, x, y \in Conns :
       (rooms[r].maxPlayers = 1 /\ x # y) =>
         \* a join of the empty room succeeds
         /\ (JoinOf(y, r) /\ PlayerCount(rooms[r]) = 0)
            => (GetsRoomJoined(y, r) /\ PlayerCount(rooms'[r]) = 1)
         \* a join while X occupies it is refused
         /\ (JoinOf(y, r) /\ Occupant(x, r))
            => (out' = ErrorReply(y, "Room is full") /\ PlayerCount(rooms'[r]) = 1)
         \* X's disconnection empties it
         /\ (last'.op = "close" /\ last'.ws = x /\ Occupant(x, r))
            => PlayerCount(rooms'[r]) = 0]_vars

----------------------------------------------------------------------------
(* C8: when a connection that is in a room disconnects, its own player     *)
(* entry is removed (the count drops by exactly one), the remaining        *)
(* occupants receive exactly one player_left for its id and one system     *)
(* 'left' chat line; a second event (close after error) changes nothing    *)
(* and sends nothing.  After the close its session is out of the registry  *)
(* and its player id is in no room.                                        *)

StaysOpen(d) == ws'[d].readyState = "OPEN"

LeaveAnnounced(c, r) ==
  /\ rooms'[r].players = Del(rooms[r].players, Pid(c))
  /\ \A q \in RoomIds \ {r} : rooms'[q].players = rooms[q].players
  /\ Types(out') = <<"player_left", "chat">>
  /\ out'[1].id = Pid(c) /\ out'[1].room = r
  /\ out'[2].data.sys = "left"
  /\ \A i \in {1, 2} : out'[i].to = {d \in Conns : StaysOpen(d) /\ OccupantAfter(d, r)}

NothingHappens(c) ==
  /\ rooms' = rooms
  /\ out' = << >>
  /\ \A d \in Conns \ {c} : (Open(d) /\ HasInfo(clients, d)) =>
       (HasInfo(clients', d) /\ clients'[Key(d)] = clients[Key(d)])

C8_DisconnectOnce ==
  [][\A c \in Conns :
       (last'.op \in {"error", "close"} /\ last'.ws = c) =>
         \* in a room: this event does the leave, or it is the error and the
         \* leave is left to the close
         /\ (\E r \in RoomIds : Occupant(c, r)) =>
              \/ \E r \in RoomIds : Occupant(c, r) /\ LeaveAnnounced(c, r)
              \/ last'.op = "error" /\ NothingHappens(c)
         \* the close after an error that did the leave
         /\ (last'.op = "close" /\ ws[c].readyState = "CLOSING"
               /\ ~\E r \in RoomIds : Occupant(c, r)) => NothingHappens(c)
         /\ last'.op = "close" =>
              /\ \A r \in RoomIds : ~OccupantAfter(c, r)
              /\ (variant = "map" => Key(c) \notin DOMAIN clients')]_vars

----------------------------------------------------------------------------
(* C9: a connection in room A that sends join_room for another existing,   *)
(* non-full room B is afterwards still registered, with a session naming   *)
(* B; its player entry is gone from A and present in B; A's remaining      *)
(* occupants received its player_left; and its later messages are          *)
(* processed: a chat from a connection in a room is sent to its room,      *)
(* the sender included.                                                    *)

Switches(c, a, b) ==
  /\ JoinOf(c, b) /\ a # b
  /\ InRoom(c, a)
  /\ PlayerCount(rooms[b]) < rooms[b].maxPlayers

Switched(c, a, b) ==
  /\ HasInfo(clients', c) /\ clients'[Key(c)].roomId = b
  /\ ~OccupantAfter(c, a) /\ OccupantAfter(c, b)
  /\ \E i \in DOMAIN out' :
       /\ out'[i].type = "player_left" /\ out'[i].room = a /\ out'[i].id = Pid(c)
       /\ \A d \in Conns \ {c} : (Open(d) /\ OccupantAfter(d, a)) => d \in out'[i].to

ChatProcessed ==
  \A c \in Conns, r \in RoomIds :
    (last'.op = "chat" /\ last'.ws = c /\ Occupant(c, r))
    => (~crashed' /\ Len(out') = 1 /\ out'[1].type = "chat" /\ out'[1].room = r
        /\ c \in out'[1].to)

C9_SwitchRooms ==
  [][/\ \A c \in Conns, a, b \in RoomIds : Switches(c, a, b) => Switched(c, a, b)
     /\ ChatProcessed]_vars

----------------------------------------------------------------------------
(* C10 (Map-keyed server): the player_moved of a move goes exactly once to *)
(* every other open connection joined to the mover's room, never to the    *)
(* mover and never to a connection in another room; the mover's stored     *)
(* position and heading are overwritten with the sent values (a sent value *)
(* that is no number is stored as 0).                                      *)

Stored(sent, kept) == IF sent \in Numerals THEN kept = sent ELSE kept = "0"

Overwritten(p, m) ==
  Stored(m.x, p.x) /\ Stored(m.y, p.y) /\ Stored(m.z, p.z) /\ Stored(m.rotY, p.rotY)

----------------------------------------------------------------------------
(* C11: a join_room that fails (unknown room id, or room at capacity)      *)
(* changes no room and no session, and sends one error message, to the     *)
(* requester only; a requester that was in another room stays in it and no *)
(* leave is announced.                                                     *)

JoinFails ==
  /\ IsJoin(last')
  /\ \/ last'.arg.roomId \notin RoomIds
     \/ PlayerCount(rooms[last'.arg.roomId]) >= rooms[last'.arg.roomId].maxPlayers

C11_FailedJoinNoEffect ==
  [][JoinFails =>
       /\ rooms' = rooms
       /\ clients' = clients
       /\ Types(out') = <<"error">>
       /\ out'[1].to = {last'.ws}
       /\ \A r \in RoomIds : Occupant(last'.ws, r) => OccupantAfter(last'.ws, r)]_vars

\* A connection sitting in one room was just refused by another, full one.
C11_Witness ==
  /\ IsJoin(last)
  /\ Types(out) = <<"error">>
  /\ last.arg.roomId \in RoomIds
  /\ \E r \in RoomIds \ {last.arg.roomId} :
       /\ Occupant(last.ws, r)
       /\ HasInfo(clients, last.ws) /\ clients[Key(last.ws)].roomId = r

\* An unknown room id was just refused.
C11_WitnessUnknown ==
  /\ IsJoin(last)
  /\ Types(out) = <<"error">>
  /\ last.arg.roomId = UnknownRoom

----------------------------------------------------------------------------
(* C12: a move, chat, place_block or save_map from a connection that has   *)
(* joined no room is a no-op, whoever else is connected and joined: no     *)
(* room changes and nothing is sent.                                       *)

RoomOps == {"move", "chat", "place_block", "save_map"}

C12_UnjoinedNoOp ==
  [][\A c \in Conns :
       (last'.op \in RoomOps /\ last'.ws = c /\ ~\E r \in RoomIds : Occupant(c, r))
       => (rooms' = rooms /\ out' = << >> /\ ~crashed')]_vars

----------------------------------------------------------------------------
(* C13: a malformed or unknown payload (text that is not JSON, JSON that   *)
(* is no object, an object of unknown type, a save_map whose mapData is    *)
(* missing or no list) is dropped: no session and no room changes, nothing *)
(* is sent, the connection stays open and the server goes on handling      *)
(* messages.                                                               *)

IsMalformed(ev) ==
  \/ ev.op = "malformed"
  \/ ev.op = "save_map" /\ ~IsArray(ev.arg)

C13_MalformedDropped ==
  [][IsMalformed(last') =>
       /\ rooms' = rooms
       /\ clients' = clients
       /\ out' = << >>
       /\ ws' = ws
       /\ ~crashed']_vars

----------------------------------------------------------------------------
(* C14 (Map-keyed server): a successful join_room sends, in this order:    *)
(* room_joined to the joiner, with the joiner and every occupant in its    *)
(* players, the room's whole block map and the fixed-size tail of the chat *)
(* history as it was before the join's own system line; player_joined to   *)
(* every other occupant, never the joiner; then the system 'joined' line,  *)
(* appended to the history and sent to every occupant, the joiner included.*)

OpenOccupantsAfter(r) == {d \in Conns : Open(d) /\ OccupantAfter(d, r)}

Admitted(c, r) ==
  /\ JoinOf(c, r)
  /\ \E i \in DOMAIN out' : out'[i].type = "room_joined"

JoinSequence(c, r) ==
  LET k == Len(out') - 2
      before == SubSeq(rooms'[r].chatHistory, 1, Len(rooms'[r].chatHistory) - 1)
      tail == IF Len(before) < ChatTail THEN Len(before) ELSE ChatTail
  IN  /\ k \in {1, 3}
      /\ \A i \in 1..(k - 1) : out'[i].type \in {"player_left", "chat"}
      \* the snapshot
      /\ out'[k].type = "room_joined" /\ out'[k].to = {c} /\ out'[k].room = r
      /\ DOMAIN out'[k].data.players = DOMAIN rooms[r].players \cup {Pid(c)}
      /\ out'[k].data.players = rooms'[r].players
      /\ out'[k].data.mapData = rooms[r].mapData
      /\ out'[k].data.chatHistory = [i \in 1..tail |-> before[Len(before) - tail + i]]
      \* the others are told
      /\ out'[k + 1].type = "player_joined" /\ out'[k + 1].room = r
      /\ out'[k + 1].id = Pid(c)
      /\ out'[k + 1].to = OpenOccupantsAfter(r) \ {c}
      \* the system line
      /\ out'[k + 2].type = "chat" /\ out'[k + 2].room = r
      /\ out'[k + 2].data.sys = "joined"
      /\ out'[k + 2].to = OpenOccupantsAfter(r)
      /\ c \in out'[k + 2].to
      /\ rooms'[r].chatHistory # << >>
      /\ rooms'[r].chatHistory[Len(rooms'[r].chatHistory)] = out'[k + 2].data

C14_JoinOrder ==
  [][\A c \in Conns, r \in RoomIds : Admitted(c, r) => JoinSequence(c, r)]_vars

\* Somebody was just admitted to a room that has another occupant and a chat
\* history longer than the tail.
C14_Witness ==
  /\ variant = "map"
  /\ IsJoin(last)
  /\ Types(out) = <<"room_joined", "player_joined", "chat">>
  /\ out[2].to # {}
  /\ Len(rooms[out[1].room].chatHistory) - 1 > ChatTail
  /\ Len(out[1].data.chatHistory) = ChatTail

----------------------------------------------------------------------------
(* C16 (Map-keyed server): rooms are isolated.  A move, chat, place_block  *)
(* or save_map handled for a connection joined to room R leaves every      *)
(* other room's players, map and chat history as they were; a join or a    *)
(* disconnect changes only the room joined and the room left; nothing else *)
(* changes any room.                                                       *)

SessionRoom(c) == IF HasInfo(clients, c) THEN clients[Key(c)].roomId ELSE NoRoom

\* The rooms the event may write.
Touched(ev) ==
  IF ev.op \in RoomOps \cup {"close", "error"} THEN {SessionRoom(ev.ws)}
  ELSE IF IsJoin(ev) THEN {SessionRoom(ev.ws), ev.arg.roomId}
  ELSE {}

C16_RoomsIsolated ==
  [][\A q \in RoomIds : q \notin Touched(last') => rooms'[q] = rooms[q]]_vars

\* A chat line was just filed in one room while another room has an occupant.
C16_Witness ==
  /\ variant = "map"
  /\ last.op = "chat"
  /\ Types(out) = <<"chat">>
  /\ \E q \in RoomIds \ {out[1].room} : rooms[q].players # EmptyFn

----------------------------------------------------------------------------
(* C17: place_block(x,y,z,t) by a connection that is in a room removes     *)
(* every entry at (x,y,z), inserts exactly one entry of type t there       *)
(* unless t is "air", leaves the entries at all other cells as they were,  *)
(* and sends block_update{x,y,z,t} to every occupant, the sender included. *)
(* So stone and then air at one cell leaves no entry there.                *)

RECURSIVE EntriesAt(_, _, _, _)
EntriesAt(m, x, y, z) ==
  IF m = << >> THEN << >>
  ELSE (IF SameCell(Head(m), x, y, z) THEN <<Head(m).type>> ELSE << >>)
       \o EntriesAt(Tail(m), x, y, z)

RECURSIVE ElseWhere(_, _, _, _)
ElseWhere(m, x, y, z) ==
  IF m = << >> THEN << >>
  ELSE (IF SameCell(Head(m), x, y, z) THEN << >> ELSE <<Head(m)>>)
       \o ElseWhere(Tail(m), x, y, z)

Placed(c, r) ==
  LET b == last'.arg
  IN  /\ ~crashed'
      /\ IsArray(rooms'[r].mapData)
      /\ EntriesAt(rooms'[r].mapData, b.x, b.y, b.z)
           = (IF b.type = "air" THEN << >> ELSE <<b.type>>)
      /\ ElseWhere(rooms'[r].mapData, b.x, b.y, b.z)
           = ElseWhere(rooms[r].mapData, b.x, b.y, b.z)
      /\ Types(out') = <<"block_update">>
      /\ out'[1].data = b /\ out'[1].room = r
      /\ out'[1].to = {d \in Conns : Open(d) /\ Occupant(d, r)}
      /\ c \in out'[1].to

C17_PlaceBlock ==
  [][\A c \in Conns, r \in RoomIds :
       (last'.op = "place_block" /\ last'.ws = c /\ Occupant(c, r)) => Placed(c, r)]_vars

----------------------------------------------------------------------------
(* C18 (Map-keyed server): the replica of every open connection that is in *)
(* a room equals the server's room.  The replica is the mapData and the    *)
(* set of player ids of the room_joined it received, with every            *)
(* block_update, map_reload, player_joined and player_left received since  *)
(* applied in arrival order.  Stated as a step: a replica equal to the     *)
(* room before a message is handled, and fed what that handler sent to the *)
(* connection, equals the room afterwards.                                 *)

View(room) == [map |-> room.mapData, ids |-> DOMAIN room.players]
NoView == [map |-> << >>, ids |-> {}]

\* What a client does with one message it receives.
Apply(v, m) ==
  CASE m.type = "room_joined" ->
         [map |-> m.data.mapData, ids |-> DOMAIN m.data.players]
    [] m.type = "block_update" ->
         [v EXCEPT !.map = ElseWhere(@, m.data.x, m.data.y, m.data.z)
                           \o (IF m.data.type = "air" THEN << >> ELSE <<m.data>>)]
    [] m.type = "map_reload" -> [v EXCEPT !.map = m.data]
    [] m.type = "player_joined" -> [v EXCEPT !.ids = @ \cup {m.id}]
    [] m.type = "player_left" -> [v EXCEPT !.ids = @ \ {m.id}]
    [] OTHER -> v

\* The replica of c after the messages o[i..] addressed to it.
RECURSIVE Replay(_, _, _, _)
Replay(v, o, i, c) ==
  IF i > Len(o) THEN v
  ELSE Replay(IF c \in o[i].to THEN Apply(v, o[i]) ELSE v, o, i + 1, c)

ReplicaBefore(c) ==
  IF SessionRoom(c) \in RoomIds THEN View(rooms[SessionRoom(c)]) ELSE NoView

C18_ReplicaInStep ==
  [][\A c \in Conns, r \in RoomIds :
       (ws'[c].readyState = "OPEN" /\ HasInfo(clients', c) /\ clients'[Key(c)].roomId = r)
       => Replay(ReplicaBefore(c), out', 1, c) = View(rooms'[r])]_vars

\* A block was just placed in a room where somebody besides the sender got the update.
C18_Witness ==
  /\ variant = "map"
  /\ last.op = "place_block"
  /\ Types(out) = <<"block_update">>
  /\ out[1].to \ {last.ws} # {}
  /\ last.ws \in out[1].to

----------------------------------------------------------------------------
(* C19 (Map-keyed server): registry and rooms agree.  A registered session *)
(* has roomId r (not null) exactly when its player id is a key of room r's *)
(* players; no player id is in two rooms' player sets; every entry of a    *)
(* room's player set is the player of a registered session.                *)

Registered == {clients[k] : k \in DOMAIN clients}

SessionMatchesRoom ==
  \A info \in Registered, r \in RoomIds :
    (info.roomId = r) <=> (info.playerId \in DOMAIN rooms[r].players)

InOneRoomOnly ==
  \A r, q \in RoomIds :
    r # q => DOMAIN rooms[r].players \cap DOMAIN rooms[q].players = {}

EveryPlayerRegistered ==
  \A r \in RoomIds : \A id \in DOMAIN rooms[r].players :
    \E info \in Registered : info.playerId = id

C19_RegistryAgrees ==
  SessionMatchesRoom /\ InOneRoomOnly /\ EveryPlayerRegistered

\* A connection has just moved from one room to another while a second
\* connection's socket is gone.
C19_Witness ==
  /\ variant = "map"
  /\ IsJoin(last)
  /\ Types(out) = <<"player_left", "chat", "room_joined", "player_joined", "chat">>
  /\ out[1].room # out[3].room
  /\ \E d \in Conns : ws[d].readyState = "CLOSED"

----------------------------------------------------------------------------
(* C20 (word game, battle mode): a battle room's winner, when not null, is *)
(* the socket id of the room's p1 or p2; a battle:win that arrives after a *)
(* winner is recorded changes nothing and emits nothing, so a round        *)
(* (creation or restart to the next restart) has at most one               *)
(* battle:result.                                                          *)

PlayersOf(room) ==
  {room.p1.id} \cup (IF room.p2 # NoPlayer THEN {room.p2.id} ELSE {})

WinnerIsPlayer ==
  \A roomId \in DOMAIN battleRooms :
    battleRooms[roomId].winner # NoWinner
    => battleRooms[roomId].winner \in PlayersOf(battleRooms[roomId])

LateWinIgnored ==
  (/\ last'.op = "battle:win"
   /\ last'.arg \in DOMAIN battleRooms
   /\ battleRooms[last'.arg].winner # NoWinner)
  => (battleRooms' = battleRooms /\ out' = << >>)

OneResultPerRound ==
  \A i \in DOMAIN out' :
    out'[i].type = "battle:result"
    => /\ Len(out') = 1
       /\ out'[i].room \in DOMAIN battleRooms
       /\ battleRooms[out'[i].room].winner = NoWinner
       /\ battleRooms'[out'[i].room].winner = out'[i].id

C20_WinsCounted == [][LateWinIgnored /\ OneResultPerRound]_vars

C20_BattleWinner == [][WinnerIsPlayer' /\ LateWinIgnored /\ OneResultPerRound]_vars

----------------------------------------------------------------------------
(* C21 (word game, battle mode): battle:restart for a battle room that     *)
(* exists, a room without a second player included, completes without      *)
(* fault, leaves both participants' words and the winner null, and emits   *)
(* battle:enter_word to the room.                                          *)

Restarted(roomId) ==
  /\ ~crashed'
  /\ roomId \in DOMAIN battleRooms'
  /\ battleRooms'[roomId].p1.word = NoWord
  /\ battleRooms'[roomId].p2.word = NoWord
  /\ battleRooms'[roomId].winner = NoWinner
  /\ Types(out') = <<"battle:enter_word">>
  /\ out'[1].room = roomId
  /\ out'[1].to = ioTo(members, roomId)

C21_RestartCompletes ==
  [][(last'.op = "battle:restart" /\ last'.arg \in DOMAIN battleRooms)
     => Restarted(last'.arg)]_vars

\* The same, for the rooms that have their second player.
C21_RestartOfFullRoom ==
  [][(/\ last'.op = "battle:restart"
      /\ last'.arg \in DOMAIN battleRooms
      /\ battleRooms[last'.arg].p2 # NoPlayer)
     => Restarted(last'.arg)]_vars

----------------------------------------------------------------------------
(* C22 (word game, race mode): every existing race room's hostId is the    *)
(* socket id of one of the room's current players, so a room that has      *)
(* players has one who may restart it.                                     *)

C22_HostIsPlayer ==
  \A roomId \in DOMAIN raceRooms : HasPlayer(raceRooms[roomId], raceRooms[roomId].hostId)

----------------------------------------------------------------------------
(* C23 (word game, race mode): race:win from any connected socket for any  *)
(* existing room completes without fault; the recorded winner, when not    *)
(* null, is a player of that room; a race:win that arrives after a winner  *)
(* is recorded changes nothing and emits nothing, so a round (creation or  *)
(* an accepted restart to the next accepted restart) has at most one       *)
(* race:winner.                                                            *)

RaceWinCompletes ==
  (last'.op = "race:win" /\ last'.arg.roomId \in DOMAIN raceRooms) => ~crashed'

RaceWinnerIsPlayer ==
  \A roomId \in DOMAIN raceRooms :
    raceRooms[roomId].winner # NoRaceWinner
    => HasPlayer(raceRooms[roomId], raceRooms[roomId].winner.id)

LateRaceWinIgnored ==
  (/\ last'.op = "race:win"
   /\ last'.arg.roomId \in DOMAIN raceRooms
   /\ raceRooms[last'.arg.roomId].winner # NoRaceWinner)
  => (raceRooms' = raceRooms /\ out' = << >>)

OneWinnerPerRound ==
  \A i \in DOMAIN out' :
    out'[i].type = "race:winner"
    => /\ \A j \in DOMAIN out' : out'[j].type = "race:winner" => j = i
       /\ out'[i].room \in DOMAIN raceRooms
       /\ raceRooms[out'[i].room].winner = NoRaceWinner
       /\ raceRooms'[out'[i].room].winner.id = out'[i].id

C23_RaceWinsCounted == [][LateRaceWinIgnored /\ OneWinnerPerRound]_vars

C23_WinnerStaysPlayer == RaceWinnerIsPlayer

C23_RaceWin ==
  [][RaceWinCompletes /\ RaceWinnerIsPlayer' /\ LateRaceWinIgnored
     /\ OneWinnerPerRound]_vars

----------------------------------------------------------------------------
(* C24 (word game): no stale membership survives a leave or a disconnect.  *)
(* Every race room has at least one player and all its players are         *)
(* connected sockets (a race room goes when its last player leaves or      *)
(* disconnects); every battle room's p1 and p2 are connected sockets, and  *)
(* when either disconnects the room is deleted and battle:opponent_left is *)
(* emitted to the room.                                                    *)

Connected(id) == id \in Sockets /\ sock[id] = "connected"

RaceRoomsLive ==
  \A roomId \in DOMAIN raceRooms :
    /\ raceRooms[roomId].players # << >>
    /\ \A i \in DOMAIN raceRooms[roomId].players :
         Connected(raceRooms[roomId].players[i].id)

BattleRoomsLive ==
  \A roomId \in DOMAIN battleRooms :
    \A id \in PlayersOf(battleRooms[roomId]) : Connected(id)

DisconnectClosesBattle ==
  last'.op = "disconnect" =>
    \A roomId \in DOMAIN battleRooms :
      last'.ws \in PlayersOf(battleRooms[roomId])
      => /\ roomId \notin DOMAIN battleRooms'
         /\ \E i \in DOMAIN out' :
              /\ out'[i].type = "battle:opponent_left"
              /\ out'[i].room = roomId
              /\ out'[i].to = {t \in Sockets \ {last'.ws} :
                                 sock[t] = "connected" /\ roomId \in members[t]}

LastPlayerClosesRace ==
  last'.op \in {"disconnect", "race:leave"} =>
    \A roomId \in DOMAIN raceRooms :
      (/\ last'.op = "race:leave" => last'.arg = roomId
       /\ \A i \in DOMAIN raceRooms[roomId].players :
            raceRooms[roomId].players[i].id = last'.ws)
      => roomId \notin DOMAIN raceRooms'

C24_NoStaleMembers ==
  [][RaceRoomsLive' /\ BattleRoomsLive' /\ DisconnectClosesBattle
     /\ LastPlayerClosesRace]_vars

\* A socket that was p1 or p2 of a battle room and one of several players of a
\* race room has just disconnected: the others were told of both.
C24_Witness ==
  /\ last.op = "disconnect"
  /\ Types(out) = <<"battle:opponent_left", "race:players">>
  /\ out[1].to # {}
  /\ out[2].to # {}
  /\ out[1].room \notin DOMAIN battleRooms
  /\ out[2].room \in DOMAIN raceRooms

====
